---- MODULE Spec2Model ----
(***************************************************************************)
(* A model of the LUCID backend: the Flask application of src/lucid.py     *)
(* (OPTIONS /lucid, POST /lucid, GET /) and its predecessor                *)
(* src/chatgolem.py (OPTIONS /chatgolem, POST /chatgolem, GET /).          *)
(*                                                                         *)
(* Python values are tagged records: PyNone, PyBool, PyInt, PyFloat,      *)
(* PyStr, PyList, PyDict.  A string is a sequence of symbols; a symbol is  *)
(* one character ("a", ",", " ", "*", "1", ...) or, for the fixed texts    *)
(* the program itself writes ('true', 'Content-Type', ...), the whole      *)
(* literal.  A float is kept in hundredths (1.0 is 100).                   *)
(***************************************************************************)
EXTENDS Integers, Sequences, FiniteSets, TLC

VARIABLES
    environ,                 \* os.environ: ALLOWED_ORIGINS, OPENAI_API_KEY, openai_api_key
    request,                 \* flask.request of the request being handled
    pc,                      \* where the handling of the request stands
    origin_to_send,          \* lucid(): value for Access-Control-Allow-Origin
    allow_credentials_post,  \* lucid(): whether Allow-Credentials is sent
    body,                    \* lucid(): the parsed request body
    used_temperature,        \* lucid(): temperature sent upstream
    used_seed,               \* lucid(): seed sent upstream, or None
    data_payload,            \* the JSON payload posted to the upstream API
    upstream_calls,          \* requests.post calls made for this request
    upstream_result,         \* what requests.post returned or raised
    response                 \* the response returned for this request

vars == <<environ, request, pc, origin_to_send, allow_credentials_post, body,
          used_temperature, used_seed, data_payload, upstream_calls, upstream_result,
          response>>

-----------------------------------------------------------------------------
(* Bounds of the model. *)

\* longest ALLOWED_ORIGINS value, in characters
MaxEnvLen == 3
\* longest Origin header value, in characters
MaxOriginLen == 2
\* longest `messages` list of a request body
MaxMsgs == 2
\* requests handled at the same time
NumHandlers == 2

-----------------------------------------------------------------------------
(* Python values. *)

PyNone == [t |-> "None"]
PyBool(b) == [t |-> "bool", v |-> b]
PyInt(n) == [t |-> "int", v |-> n]
PyFloat(h) == [t |-> "float", v |-> h]
\* float('inf') (JSON Infinity, 1e999), float('nan') (JSON NaN)
PyInf == [t |-> "inf"]
PyNaN == [t |-> "nan"]
\* an int too large for a float (JSON 1 followed by 400 zeros)
PyBigInt == [t |-> "bigint"]
PyStr(s) == [t |-> "str", v |-> s]
PyList(l) == [t |-> "list", v |-> l]
PyDict(d) == [t |-> "dict", v |-> d]

\* a fixed text of the program, as a one-symbol string
Lit(s) == PyStr(<<s>>)

\* Python truthiness: `not x` is ~Truthy(x)
Truthy(x) ==
    CASE x.t = "None" -> FALSE
      [] x.t = "bool" -> x.v
      [] x.t = "int" -> x.v # 0
      [] x.t = "float" -> x.v # 0
      [] x.t = "str" -> x.v # <<>>
      [] x.t = "list" -> x.v # <<>>
      [] x.t = "dict" -> DOMAIN x.v # {}
      [] OTHER -> TRUE

\* d.get(key, default) on a dict
DictGet(d, key, default) ==
    IF key \in DOMAIN d.v THEN d.v[key] ELSE default

\* `x in lst` for a list of values
InList(x, lst) == \E i \in 1..Len(lst) : lst[i] = x

-----------------------------------------------------------------------------
(* str.split(','), str.strip() and the allow-list. *)

RECURSIVE SplitComma(_)
\* s.split(','), on the symbols of s: the pieces between commas
SplitComma(s) ==
    IF \E i \in 1..Len(s) : s[i] = ","
    THEN LET i == CHOOSE j \in 1..Len(s) :
                    s[j] = "," /\ \A k \in 1..(j - 1) : s[k] # ","
         IN  <<SubSeq(s, 1, i - 1)>> \o SplitComma(SubSeq(s, i + 1, Len(s)))
    ELSE <<s>>

RECURSIVE Strip(_)
\* s.strip(), on the symbols of s: leading and trailing blanks removed
Strip(s) ==
    IF s = <<>> THEN s
    ELSE IF Head(s) = " " THEN Strip(Tail(s))
    ELSE IF s[Len(s)] = " " THEN Strip(SubSeq(s, 1, Len(s) - 1))
    ELSE s

RECURSIVE StrippedNonEmpty(_)
\* [origin.strip() for origin in pieces if origin.strip()]
StrippedNonEmpty(pieces) ==
    IF pieces = <<>> THEN <<>>
    ELSE LET o == Strip(Head(pieces))
         IN  (IF o # <<>> THEN <<PyStr(o)>> ELSE <<>>)
                \o StrippedNonEmpty(Tail(pieces))

\* A variant of get_allowed_origins_config() that falls back to the wildcard
\* whenever no origin is left after parsing.
get_allowed_origins_config_or_wildcard(env) ==
    LET origins_str == env.ALLOWED_ORIGINS
        allowed_list == IF ~Truthy(origins_str) THEN <<>>
                        ELSE StrippedNonEmpty(SplitComma(origins_str.v))
    IN  IF allowed_list = <<>> THEN <<Lit("*")>> ELSE allowed_list

\* get_allowed_origins_config(): the allow-list read from ALLOWED_ORIGINS
get_allowed_origins_config(env) ==
    LET origins_str == env.ALLOWED_ORIGINS
    IN  IF ~Truthy(origins_str)
        THEN <<Lit("*")>>
        ELSE StrippedNonEmpty(SplitComma(origins_str.v))

-----------------------------------------------------------------------------
(* Responses. *)

ACAO == "Access-Control-Allow-Origin"
ACAC == "Access-Control-Allow-Credentials"
ACAM == "Access-Control-Allow-Methods"
ACAH == "Access-Control-Allow-Headers"
ACMA == "Access-Control-Max-Age"
VARY == "Vary"
CTYPE == "Content-Type"

HeaderNames == {ACAO, ACAC, ACAM, ACAH, ACMA, VARY, CTYPE}

\* the headers of a fresh Flask response: only Content-Type is set
FreshHeaders(ctype) == [h \in HeaderNames |-> IF h = CTYPE THEN ctype ELSE PyNone]

TextHtmlUtf8 == Lit("text/html; charset=utf-8")
ApplicationJson == Lit("application/json")

\* make_response(text, status): a text body, Flask's default Content-Type
make_response(text, status) ==
    [status |-> status, headers |-> FreshHeaders(TextHtmlUtf8), body |-> text]

\* make_response(jsonify(data), status): a JSON body
make_json_response(data, status) ==
    [status |-> status, headers |-> FreshHeaders(ApplicationJson), body |-> PyDict(data)]

\* no response has been returned yet
NoResponse == [status |-> 0, headers |-> [h \in HeaderNames |-> PyNone], body |-> PyNone]

-----------------------------------------------------------------------------
(* src/lucid.py: handle_preflight, the before_request hook. *)

\* A variant of the decision of handle_preflight() that honours the wildcard
\* only when "*" is the whole allow-list (allowed_origins == ['*']).
PreflightDecisionSoleWildcard(origin, allowed_origins) ==
    IF allowed_origins = <<Lit("*")>>
    THEN [allowed |-> TRUE, ac_allow_origin |-> Lit("*"), send_credentials |-> FALSE]
    ELSE IF Truthy(origin) /\ InList(origin, allowed_origins)
    THEN [allowed |-> TRUE, ac_allow_origin |-> origin, send_credentials |-> TRUE]
    ELSE [allowed |-> FALSE, ac_allow_origin |-> PyNone, send_credentials |-> FALSE]

\* handle_preflight(), lines 59-74: the origin and credentials decision
PreflightDecision(origin, allowed_origins) ==
    IF InList(Lit("*"), allowed_origins)
    THEN [allowed |-> TRUE, ac_allow_origin |-> Lit("*"), send_credentials |-> FALSE]
    ELSE IF Truthy(origin) /\ InList(origin, allowed_origins)
    THEN [allowed |-> TRUE, ac_allow_origin |-> origin, send_credentials |-> TRUE]
    ELSE [allowed |-> FALSE, ac_allow_origin |-> PyNone, send_credentials |-> FALSE]

\* A variant of lines 76-106 that echoes Access-Control-Request-Headers as it
\* is, without the default of 'Content-Type' for an absent or empty value.
PreflightAllowedResponseEchoOnly(req, d) ==
    LET req_hdrs == IF req.acrh = PyNone THEN PyStr(<<>>) ELSE req.acrh
        res == make_response(PyStr(<<>>), 204)
        cors == [res.headers EXCEPT
                    ![ACAO] = d.ac_allow_origin,
                    ![ACAM] = Lit("POST, OPTIONS"),
                    ![ACAH] = req_hdrs,
                    ![ACMA] = Lit("86400")]
    IN  [res EXCEPT !.headers =
            IF d.send_credentials THEN [cors EXCEPT ![ACAC] = Lit("true")] ELSE cors]

\* handle_preflight(), lines 76-106: the 204 response with its CORS headers
PreflightAllowedResponse(req, d) ==
    LET req_hdrs == IF req.acrh = PyNone THEN PyStr(<<>>) ELSE req.acrh
        res == make_response(PyStr(<<>>), 204)
        cors == [res.headers EXCEPT
                    ![ACAO] = d.ac_allow_origin,
                    ![ACAM] = Lit("POST, OPTIONS"),
                    ![ACAH] = IF Truthy(req_hdrs) THEN req_hdrs ELSE Lit("Content-Type"),
                    ![ACMA] = Lit("86400")]
    IN  [res EXCEPT !.headers =
            IF d.send_credentials THEN [cors EXCEPT ![ACAC] = Lit("true")] ELSE cors]

\* handle_preflight(): the response to OPTIONS /lucid
PreflightResponse(req, env) ==
    LET d == PreflightDecision(req.origin, get_allowed_origins_config(env))
    IN  IF d.allowed
        THEN PreflightAllowedResponse(req, d)
        ELSE make_response(Lit("Origin not permitted for CORS preflight"), 403)

-----------------------------------------------------------------------------
(* src/lucid.py: hello_world, the root route. *)

\* A variant of the decision of hello_world() that sends the credentials
\* header under the wildcard too.
HelloWorldDecisionAlwaysCredentials(origin, allowed_origins) ==
    IF InList(Lit("*"), allowed_origins)
    THEN [origin_to_send |-> Lit("*"), send_credentials_get |-> TRUE]
    ELSE IF Truthy(origin) /\ InList(origin, allowed_origins)
    THEN [origin_to_send |-> origin, send_credentials_get |-> TRUE]
    ELSE [origin_to_send |-> PyNone, send_credentials_get |-> FALSE]

\* hello_world(), lines 193-200: the origin and credentials decision
HelloWorldDecision(origin, allowed_origins) ==
    IF InList(Lit("*"), allowed_origins)
    THEN [origin_to_send |-> Lit("*"), send_credentials_get |-> FALSE]
    ELSE IF Truthy(origin) /\ InList(origin, allowed_origins)
    THEN [origin_to_send |-> origin, send_credentials_get |-> TRUE]
    ELSE [origin_to_send |-> PyNone, send_credentials_get |-> FALSE]

\* hello_world(): the response to GET /
HelloWorldResponse(req, env) ==
    LET d == HelloWorldDecision(req.origin, get_allowed_origins_config(env))
        resp == [make_response(Lit("display_html"), 200)
                    EXCEPT !.headers[CTYPE] = Lit("text/html")]
    IN  IF Truthy(d.origin_to_send)
        THEN [resp EXCEPT
                !.headers[ACAO] = d.origin_to_send,
                !.headers[VARY] = Lit("Origin"),
                !.headers[ACAC] = IF d.send_credentials_get THEN Lit("true") ELSE PyNone]
        ELSE resp

-----------------------------------------------------------------------------
(* Python conversions used by lucid(): float(x), int(x). *)

Digits == {"0", "1", "2", "3", "4", "5", "6", "7", "8", "9"}

DigitVal(c) ==
    CASE c = "0" -> 0 [] c = "1" -> 1 [] c = "2" -> 2 [] c = "3" -> 3 [] c = "4" -> 4
      [] c = "5" -> 5 [] c = "6" -> 6 [] c = "7" -> 7 [] c = "8" -> 8 [] c = "9" -> 9

RECURSIVE DigitsVal(_)
\* the number a digit string denotes ("" is 0)
DigitsVal(s) ==
    IF s = <<>> THEN 0 ELSE DigitsVal(SubSeq(s, 1, Len(s) - 1)) * 10 + DigitVal(s[Len(s)])

AllDigits(s) == \A i \in 1..Len(s) : s[i] \in Digits

\* an exception raised instead of a value
Raise(name) == [exc |-> name, v |-> PyNone]
Return(v) == [exc |-> "", v |-> v]

\* whether the stripped text u starts with a minus sign
IsNegative(u) == u # <<>> /\ Head(u) = "-"

\* the stripped text u without its sign
Unsigned(u) == IF u # <<>> /\ Head(u) \in {"-", "+"} THEN Tail(u) ELSE u

\* int(s) of a string: blanks stripped, an optional sign, then digits only
IntOfStr(s) ==
    IF Unsigned(Strip(s)) # <<>> /\ AllDigits(Unsigned(Strip(s)))
    THEN Return(PyInt(IF IsNegative(Strip(s)) THEN 0 - DigitsVal(Unsigned(Strip(s)))
                      ELSE DigitsVal(Unsigned(Strip(s)))))
    ELSE Raise("ValueError")

\* where the decimal point of d stands (past the end when there is none)
PointPos(d) ==
    IF \E i \in 1..Len(d) : d[i] = "." THEN CHOOSE i \in 1..Len(d) : d[i] = "."
    ELSE Len(d) + 1

\* the hundredths that the digits after the point denote (at most two digits)
Hundredths(fp) ==
    IF Len(fp) = 0 THEN 0
    ELSE IF Len(fp) = 1 THEN DigitVal(fp[1]) * 10
    ELSE DigitsVal(SubSeq(fp, 1, 2))

\* whether ip.fp is a decimal numeral: digits, and at least one of them
IsDecimal(ip, fp) == AllDigits(ip) /\ AllDigits(fp) /\ Len(ip) + Len(fp) > 0

\* float of the unsigned text d, in hundredths
FloatOfUnsigned(d, negative) ==
    IF IsDecimal(SubSeq(d, 1, PointPos(d) - 1), SubSeq(d, PointPos(d) + 1, Len(d)))
    THEN Return(PyFloat((IF negative THEN -1 ELSE 1) *
                        (DigitsVal(SubSeq(d, 1, PointPos(d) - 1)) * 100
                            + Hundredths(SubSeq(d, PointPos(d) + 1, Len(d))))))
    ELSE Raise("ValueError")

\* float(s) of a string: blanks stripped, an optional sign, digits with at
\* most one point
FloatOfStr(s) == FloatOfUnsigned(Unsigned(Strip(s)), IsNegative(Strip(s)))

\* float(x)
PyFloatOf(x) ==
    CASE x.t = "float" -> Return(x)
      [] x.t = "int" -> Return(PyFloat(x.v * 100))
      [] x.t = "bool" -> Return(PyFloat(IF x.v THEN 100 ELSE 0))
      [] x.t = "inf" -> Return(PyInf)
      [] x.t = "nan" -> Return(PyNaN)
      [] x.t = "bigint" -> Raise("OverflowError")
      [] x.t = "str" -> FloatOfStr(x.v)
      [] OTHER -> Raise("TypeError")

\* int(x): a float is truncated towards zero
PyIntOf(x) ==
    CASE x.t = "int" -> Return(x)
      [] x.t = "float" -> Return(PyInt(IF x.v >= 0 THEN x.v \div 100
                                       ELSE 0 - ((0 - x.v) \div 100)))
      [] x.t = "bool" -> Return(PyInt(IF x.v THEN 1 ELSE 0))
      [] x.t = "inf" -> Raise("OverflowError")
      [] x.t = "nan" -> Raise("ValueError")
      [] x.t = "bigint" -> Return(PyBigInt)
      [] x.t = "str" -> IntOfStr(x.v)
      [] OTHER -> Raise("TypeError")

-----------------------------------------------------------------------------
(* src/lucid.py: lucid, the POST /lucid route. *)

\* A variant of the origin gate of lucid() that also lets through a request
\* without an Origin header (a same-origin or non-browser caller).
LucidCorsDecisionNoOriginPasses(origin, allowed_origins) ==
    IF InList(Lit("*"), allowed_origins)
    THEN [origin_to_send |-> Lit("*"), is_request_allowed |-> TRUE,
          allow_credentials_post |-> FALSE]
    ELSE IF Truthy(origin) /\ InList(origin, allowed_origins)
    THEN [origin_to_send |-> origin, is_request_allowed |-> TRUE,
          allow_credentials_post |-> TRUE]
    ELSE [origin_to_send |-> PyNone, is_request_allowed |-> origin = PyNone,
          allow_credentials_post |-> FALSE]

\* lucid(), lines 225-244: the origin gate of the POST request
LucidCorsDecision(origin, allowed_origins) ==
    IF InList(Lit("*"), allowed_origins)
    THEN [origin_to_send |-> Lit("*"), is_request_allowed |-> TRUE,
          allow_credentials_post |-> FALSE]
    ELSE IF Truthy(origin) /\ InList(origin, allowed_origins)
    THEN [origin_to_send |-> origin, is_request_allowed |-> TRUE,
          allow_credentials_post |-> TRUE]
    ELSE [origin_to_send |-> PyNone, is_request_allowed |-> FALSE,
          allow_credentials_post |-> FALSE]

\* A variant of the 403 of lucid() that sets Vary whether or not an origin is
\* to be sent.
LucidForbiddenResponseWithVary(d) ==
    LET error_resp == make_json_response(
            [error |-> Lit("Forbidden"), message |-> Lit("Origin not permitted.")], 403)
    IN  [error_resp EXCEPT
            !.headers[ACAO] = d.origin_to_send,
            !.headers[VARY] = Lit("Origin"),
            !.headers[ACAC] = IF d.allow_credentials_post THEN Lit("true") ELSE PyNone]

\* lucid(), lines 247-257: the 403 of a request that fails the origin gate
LucidForbiddenResponse(d) ==
    LET error_resp == make_json_response(
            [error |-> Lit("Forbidden"), message |-> Lit("Origin not permitted.")], 403)
    IN  IF Truthy(d.origin_to_send)
        THEN [error_resp EXCEPT
                !.headers[ACAO] = d.origin_to_send,
                !.headers[VARY] = Lit("Origin"),
                !.headers[ACAC] = IF d.allow_credentials_post THEN Lit("true") ELSE PyNone]
        ELSE error_resp

\* lucid(), line 270: json.loads(post_data.decode('utf-8'))
LoadBody(post_data) ==
    IF ~post_data.utf8 THEN Raise("UnicodeDecodeError")
    ELSE IF ~post_data.json THEN Raise("JSONDecodeError")
    ELSE Return(post_data.value)

\* lucid(), lines 274-277: the key under either environment name
ApiKey(env) ==
    IF Truthy(env.OPENAI_API_KEY) THEN env.OPENAI_API_KEY ELSE env.openai_api_key

\* A variant of the key check of lucid() that tests `OPENAI_API_KEY is None`
\* in place of `not OPENAI_API_KEY`.
KeyMissingIsNone(env) == ApiKey(env) = PyNone

\* lucid(), line 286: `if not OPENAI_API_KEY`
KeyMissing(env) == ~Truthy(ApiKey(env))

\* A variant of lines 307-313 that rescales an accepted temperature from
\* [0.0, 2.0] to [0.0, 1.0] (used_temperature = parsed_temp / 2).
ResolveTemperatureHalved(temp_from_frontend) ==
    IF temp_from_frontend = PyNone THEN Return(PyFloat(100))
    ELSE LET r == PyFloatOf(temp_from_frontend)
         IN  IF r.exc \in {"ValueError", "TypeError"} THEN Return(PyFloat(100))
             ELSE IF r.exc # "" THEN r
             ELSE IF r.v.t = "float" /\ 0 <= r.v.v /\ r.v.v <= 200
                  THEN Return(PyFloat(r.v.v \div 2))
             ELSE Return(PyFloat(100))

\* lucid(), lines 307-313: the temperature used
ResolveTemperature(temp_from_frontend) ==
    IF temp_from_frontend = PyNone THEN Return(PyFloat(100))
    ELSE LET r == PyFloatOf(temp_from_frontend)
         IN  IF r.exc \in {"ValueError", "TypeError"} THEN Return(PyFloat(100))
             ELSE IF r.exc # "" THEN r
             ELSE IF r.v.t = "float" /\ 0 <= r.v.v /\ r.v.v <= 200 THEN r
             ELSE Return(PyFloat(100))

\* lucid(), lines 317-320: the seed used
ResolveSeed(seed_from_frontend) ==
    IF seed_from_frontend = PyNone THEN Return(PyNone)
    ELSE LET r == PyIntOf(seed_from_frontend)
         IN  IF r.exc \in {"ValueError", "TypeError"} THEN Return(PyNone) ELSE r

\* the check of the messages list left out
MessagesRejectedNever(messages) == FALSE

\* lucid(), line 301: the check of the messages list
MessagesRejected(messages) ==
    ~Truthy(messages) \/ messages.t # "list"

\* lucid(), lines 330-337: the payload for the upstream API
BuildPayload(model, messages, temperature, seed) ==
    IF seed # PyNone
    THEN PyDict([model |-> model, messages |-> messages, temperature |-> temperature,
                 seed |-> seed])
    ELSE PyDict([model |-> model, messages |-> messages, temperature |-> temperature])

\* what lucid() holds when it leaves the try block: the data and the status
Outcome(response_data, status_code) ==
    [response_data |-> response_data, status_code |-> status_code]

\* A variant of the except clauses of lucid() whose catch-all answers with an
\* `error` field only.
ExceptionOutcomeWithoutMessage(exc) ==
    CASE exc = "Timeout" ->
            Outcome([error |-> Lit("Gateway Timeout"),
                     message |-> Lit("Request to AI service timed out.")], 504)
      [] exc = "RequestException" ->
            Outcome([error |-> Lit("Service Unavailable"),
                     message |-> Lit("Network error connecting to AI service.")], 503)
      [] exc = "JSONDecodeError" ->
            Outcome([error |-> Lit("Bad Request"),
                     message |-> Lit("Invalid JSON format in request body.")], 400)
      [] OTHER ->
            Outcome([error |-> Lit("Internal Server Error")], 500)

\* A variant of the except clauses of lucid() in which the clause for
\* RequestException comes first and so catches Timeout, its subclass.
ExceptionOutcomeRequestExceptionFirst(exc) ==
    CASE exc \in {"Timeout", "RequestException"} ->
            Outcome([error |-> Lit("Service Unavailable"),
                     message |-> Lit("Network error connecting to AI service.")], 503)
      [] exc = "JSONDecodeError" ->
            Outcome([error |-> Lit("Bad Request"),
                     message |-> Lit("Invalid JSON format in request body.")], 400)
      [] OTHER ->
            Outcome([error |-> Lit("Internal Server Error"),
                     message |-> Lit("An unexpected error occurred processing the request.")],
                    500)

\* lucid(), lines 387-408: the except clauses of the try block
ExceptionOutcome(exc) ==
    CASE exc = "Timeout" ->
            Outcome([error |-> Lit("Gateway Timeout"),
                     message |-> Lit("Request to AI service timed out.")], 504)
      [] exc = "RequestException" ->
            Outcome([error |-> Lit("Service Unavailable"),
                     message |-> Lit("Network error connecting to AI service.")], 503)
      [] exc = "JSONDecodeError" ->
            Outcome([error |-> Lit("Bad Request"),
                     message |-> Lit("Invalid JSON format in request body.")], 400)
      [] OTHER ->
            Outcome([error |-> Lit("Internal Server Error"),
                     message |-> Lit("An unexpected error occurred processing the request.")],
                    500)

\* lucid(), lines 289-290: no API key
ConfigurationErrorOutcome ==
    Outcome([error |-> Lit("Configuration Error"),
             message |-> Lit("OpenAI API key not configured on server.")], 500)

\* lucid(), lines 303-304: no usable messages list
BadMessagesOutcome ==
    Outcome([error |-> Lit("Bad Request"),
             message |-> Lit("Messages list is missing, empty, or invalid.")], 400)

\* lucid(), lines 274-342: from the key check to the call of the upstream API.
\* The result either ends the try block ("done", with an outcome or an
\* exception) or is the call to make ("call").
PrepareCall(b, env) ==
    IF KeyMissing(env) THEN [step |-> "done", exc |-> "", out |-> ConfigurationErrorOutcome]
    ELSE IF b.t # "dict" THEN [step |-> "done", exc |-> "AttributeError"]
    ELSE LET model == DictGet(b, "model", Lit("gpt-4o"))
             messages == DictGet(b, "messages", PyList(<<>>))
             temp == ResolveTemperature(DictGet(b, "temperature", PyNone))
             seed == ResolveSeed(DictGet(b, "seed", PyNone))
         IN  IF MessagesRejected(messages)
             THEN [step |-> "done", exc |-> "", out |-> BadMessagesOutcome]
             ELSE IF temp.exc # "" THEN [step |-> "done", exc |-> temp.exc]
             ELSE IF seed.exc # "" THEN [step |-> "done", exc |-> seed.exc]
             ELSE [step |-> "call", used_temperature |-> temp.v, used_seed |-> seed.v,
                   data_payload |-> BuildPayload(model, messages, temp.v, seed.v)]

\* lucid(), lines 411-425: the final response with its CORS headers
FinalResponse(out, ots, acp) ==
    LET final_response == make_json_response(out.response_data, out.status_code)
    IN  [final_response EXCEPT
            !.headers[ACAO] = ots,
            !.headers[VARY] = Lit("Origin"),
            !.headers[ACAC] = IF acp THEN Lit("true") ELSE PyNone,
            !.headers[CTYPE] = Lit("application/json")]

-----------------------------------------------------------------------------
(* src/lucid.py: lucid, the upstream response (lines 343-384). *)

\* x[k] in Python, for a string key or an integer index k
Subscript(x, k) ==
    CASE x.t = "dict" ->
            IF k.t = "str" /\ k.v \in DOMAIN x.v THEN Return(x.v[k.v]) ELSE Raise("KeyError")
      [] x.t = "list" ->
            IF k.t # "int" THEN Raise("TypeError")
            ELSE IF k.v + 1 \in 1..Len(x.v) THEN Return(x.v[k.v + 1])
            ELSE Raise("IndexError")
      [] x.t = "str" ->
            IF k.t # "int" THEN Raise("TypeError")
            ELSE IF k.v + 1 \in 1..Len(x.v) THEN Return(PyStr(<<x.v[k.v + 1]>>))
            ELSE Raise("IndexError")
      [] OTHER -> Raise("TypeError")

\* a dict key: the name of the key, as TLA+ record fields name them
Key(name) == [t |-> "str", v |-> name]

\* whether the symbols of sub occur in s, one after the other
Substring(sub, s) ==
    \E i \in 0..(Len(s) - Len(sub)) : SubSeq(s, i + 1, i + Len(sub)) = sub

\* `name in x` in Python, for a text name: a key of a dict, an element of a
\* list, a substring of a string
PyContains(name, x) ==
    CASE x.t = "dict" -> Return(PyBool(name \in DOMAIN x.v))
      [] x.t = "list" -> Return(PyBool(InList(Lit(name), x.v)))
      [] x.t = "str" -> Return(PyBool(Substring(<<name>>, x.v)))
      [] OTHER -> Raise("TypeError")

\* response_openai.json()
ResponseJson(response_openai) ==
    IF response_openai.json THEN Return(response_openai.value) ELSE Raise("JSONDecodeError")

\* A variant of line 355 that reads the content with .get('content'), which
\* gives None for a message without content instead of raising KeyError.
GeneratedTextWithGet(resp_json) ==
    LET c == Subscript(resp_json, Key("choices"))
        c0 == Subscript(c.v, PyInt(0))
        m == Subscript(c0.v, Key("message"))
    IN  IF c.exc # "" THEN c
        ELSE IF c0.exc # "" THEN c0
        ELSE IF m.exc # "" THEN m
        ELSE IF m.v.t # "dict" THEN Raise("AttributeError")
        ELSE Return(DictGet(m.v, "content", PyNone))

\* resp_json['choices'][0]['message']['content'], line 355
GeneratedText(resp_json) ==
    LET c == Subscript(resp_json, Key("choices"))
        c0 == Subscript(c.v, PyInt(0))
        m == Subscript(c0.v, Key("message"))
    IN  IF c.exc # "" THEN c
        ELSE IF c0.exc # "" THEN c0
        ELSE IF m.exc # "" THEN m
        ELSE Subscript(m.v, Key("content"))

\* A variant of lines 348-370 that echoes the seed `if used_seed:` in place
\* of `if used_seed is not None:`, and so drops a seed of 0.
SuccessOutcomeSeedIfTruthy(response_openai, temperature, seed) ==
    LET j == ResponseJson(response_openai)
        g == IF j.exc # "" THEN j ELSE GeneratedText(j.v)
    IN  IF g.exc = ""
        THEN [exc |-> "",
              out |-> Outcome(
                IF Truthy(seed)
                THEN [generated_text |-> g.v, used_temperature |-> temperature,
                      used_seed |-> seed]
                ELSE [generated_text |-> g.v, used_temperature |-> temperature], 200)]
        ELSE IF g.exc \in {"KeyError", "IndexError", "TypeError", "JSONDecodeError"}
        THEN [exc |-> "",
              out |-> Outcome([error |-> Lit("Internal Server Error"),
                               message |-> Lit("Invalid response format from AI service.")],
                              500)]
        ELSE [exc |-> g.exc]

\* lucid(), lines 348-370: an upstream response with status 200
SuccessOutcome(response_openai, temperature, seed) ==
    LET j == ResponseJson(response_openai)
        g == IF j.exc # "" THEN j ELSE GeneratedText(j.v)
    IN  IF g.exc = ""
        THEN [exc |-> "",
              out |-> Outcome(
                IF seed # PyNone
                THEN [generated_text |-> g.v, used_temperature |-> temperature,
                      used_seed |-> seed]
                ELSE [generated_text |-> g.v, used_temperature |-> temperature], 200)]
        ELSE IF g.exc \in {"KeyError", "IndexError", "TypeError", "JSONDecodeError"}
        THEN [exc |-> "",
              out |-> Outcome([error |-> Lit("Internal Server Error"),
                               message |-> Lit("Invalid response format from AI service.")],
                              500)]
        ELSE [exc |-> g.exc]

\* lucid(), lines 375-381: the message taken from an upstream error body
ErrorDetails(response_openai) ==
    LET j == ResponseJson(response_openai)
        has_error == PyContains("error", j.v)
        e == Subscript(j.v, Key("error"))
        has_message == PyContains("message", e.v)
    IN  IF j.exc = "JSONDecodeError" THEN Return(response_openai.text)
        ELSE IF has_error.exc # "" THEN has_error
        ELSE IF ~has_error.v.v THEN Return(response_openai.text)
        ELSE IF e.exc # "" THEN e
        ELSE IF has_message.exc # "" THEN has_message
        ELSE IF ~has_message.v.v THEN Return(response_openai.text)
        ELSE Subscript(e.v, Key("message"))

\* the text of 'AI Service Error (<status>)', line 382
AIServiceError(openai_status) ==
    PyStr(<<"AI Service Error (", ToString(openai_status), ")">>)

\* lucid(), lines 371-384: an upstream response with another status
UpstreamErrorOutcome(response_openai) ==
    LET openai_status == response_openai.status_code
        d == ErrorDetails(response_openai)
    IN  IF d.exc # "" THEN [exc |-> d.exc]
        ELSE [exc |-> "",
              out |-> Outcome([error |-> AIServiceError(openai_status), message |-> d.v],
                              IF openai_status < 600 THEN openai_status ELSE 500)]

\* lucid(), lines 342-408: what the upstream call leads to. `upstream` is what
\* requests.post does: it raises Timeout or another RequestException, or it
\* returns a response.
UpstreamOutcome(upstream, temperature, seed) ==
    IF upstream.raises # "" THEN ExceptionOutcome(upstream.raises)
    ELSE LET r == IF upstream.status_code = 200
                  THEN SuccessOutcome(upstream, temperature, seed)
                  ELSE UpstreamErrorOutcome(upstream)
         IN  IF r.exc # "" THEN ExceptionOutcome(r.exc) ELSE r.out

-----------------------------------------------------------------------------
(* The inputs: environments, requests, upstream behaviours. *)

RECURSIVE StrsUpTo(_, _)
\* all strings over `chars` of at most n symbols
StrsUpTo(chars, n) ==
    IF n = 0 THEN {<<>>}
    ELSE StrsUpTo(chars, n - 1)
            \cup {Append(s, c) : s \in StrsUpTo(chars, n - 1), c \in chars}

\* the characters ALLOWED_ORIGINS is made of
EnvChars == {"a", "b", "*", ",", " "}
\* the characters an Origin header is made of
OriginChars == {"a", "b", "*", " "}

AllowedOriginsValues ==
    {PyNone} \cup {PyStr(s) : s \in StrsUpTo(EnvChars, MaxEnvLen)}
OriginValues ==
    {PyNone} \cup {PyStr(s) : s \in StrsUpTo(OriginChars, MaxOriginLen)}
\* Access-Control-Request-Headers: absent, empty, or a list of header names
RequestHeadersValues == {PyNone, PyStr(<<>>), Lit("X-Requested-With,Content-Type")}
KeyValues == {PyNone, PyStr(<<>>), Lit("sk-key")}

\* request.data: bytes that are not UTF-8, text that is not JSON, or JSON
BadUtf8 == [utf8 |-> FALSE, json |-> FALSE, value |-> PyNone]
BadJson == [utf8 |-> TRUE, json |-> FALSE, value |-> PyNone]
Json(v) == [utf8 |-> TRUE, json |-> TRUE, value |-> v]

\* a key that the JSON object does not have
Missing == [t |-> "missing"]

\* the JSON object with these keys, those that are Missing left out
MakeBody(model, messages, temperature, seed) ==
    LET all == [model |-> model, messages |-> messages, temperature |-> temperature,
                seed |-> seed]
    IN  PyDict([k \in {x \in DOMAIN all : all[x] # Missing} |-> all[k]])

ValidMsg == PyDict([role |-> Lit("user"), content |-> Lit("hello")])
BadRoleMsg == PyDict([role |-> Lit("hacker"), content |-> Lit("hello")])
NoRoleMsg == PyDict([content |-> Lit("hello")])
NumContentMsg == PyDict([role |-> Lit("user"), content |-> PyInt(5)])
MsgEntries == {ValidMsg, BadRoleMsg, NoRoleMsg, NumContentMsg}

MessagesLists == {PyList(l) : l \in StrsUpTo(MsgEntries, MaxMsgs)}
MessagesValues ==
    MessagesLists \cup {Missing, PyNone, PyStr(<<>>), Lit("hello"), PyInt(0), PyInt(3),
                         PyDict(<<>>), PyDict([role |-> Lit("user")])}

ModelValues == {Missing, Lit("gpt-4o-mini")}

TemperatureValues ==
    {Missing, PyNone, PyFloat(0), PyFloat(70), PyFloat(200), PyFloat(250), PyFloat(-10),
     PyInt(1), PyInt(3), PyBool(TRUE), PyStr(<<"0", ".", "5">>), PyStr(<<"2", ".", "5">>),
     PyStr(<<"x">>), PyList(<<>>), PyNaN, PyInf, PyBigInt}

SeedValues ==
    {Missing, PyNone, PyInt(42), PyInt(0), PyFloat(250), PyFloat(-250),
     PyStr(<<"4", "2">>), PyStr(<<"1", ".", "5">>), PyStr(<<"x">>), PyBool(TRUE),
     PyList(<<>>), PyNaN, PyInf, PyBigInt}

\* request bodies that vary the messages, and those that vary the parameters
RelayBodies ==
    {BadUtf8, BadJson, Json(PyList(<<>>)), Json(PyInt(1)), Json(PyNone), Json(Lit("text"))}
    \cup {Json(MakeBody(mo, ms, Missing, Missing)) : mo \in ModelValues, ms \in MessagesValues}
    \cup {Json(MakeBody(Missing, PyList(<<ValidMsg>>), t, sd)) :
            t \in TemperatureValues, sd \in SeedValues}

\* a few request bodies, one for each way a POST can go
CorsBodies ==
    {BadUtf8, BadJson, Json(MakeBody(Missing, PyList(<<>>), Missing, Missing)),
     Json(MakeBody(Missing, PyList(<<ValidMsg>>), Missing, Missing))}

\* requests.post raises
Raises(exc) == [raises |-> exc]
\* requests.post has not been called, or has not returned yet
NotCalled == Raises("not called")
\* requests.post returns a response whose body is not JSON
TextResponse(status, text) ==
    [raises |-> "", status_code |-> status, json |-> FALSE, value |-> PyNone, text |-> text]
\* requests.post returns a response whose body is the JSON value v
JsonResponse(status, v, text) ==
    [raises |-> "", status_code |-> status, json |-> TRUE, value |-> v, text |-> text]

Choices(c) == PyDict([choices |-> c])
Canonical(content) ==
    Choices(PyList(<<PyDict([message |-> PyDict([role |-> Lit("assistant"),
                                                 content |-> content])])>>))
ErrorBody(msg) == PyDict([error |-> PyDict([message |-> msg, type |-> Lit("some_type")])])

SuccessUpstreams ==
    {JsonResponse(200, Canonical(Lit("stub text")), Lit("raw canonical")),
     JsonResponse(200, Canonical(PyNone), Lit("raw null content")),
     TextResponse(200, Lit("<html>gateway</html>")),
     JsonResponse(200, PyDict(<<>>), Lit("{}")),
     JsonResponse(200, Choices(PyList(<<>>)), Lit("raw no choices")),
     JsonResponse(200, Choices(PyNone), Lit("raw null choices")),
     JsonResponse(200, Choices(Lit("text")), Lit("raw text choices")),
     JsonResponse(200, Choices(PyList(<<PyDict([message |-> PyDict(<<>>)])>>)),
                  Lit("raw no content")),
     JsonResponse(200, PyList(<<>>), Lit("[]"))}

ErrorStatuses == {201, 401, 403, 429, 500, 700}

ErrorUpstreams ==
    {JsonResponse(st, ErrorBody(m), Lit("raw error body")) :
        st \in ErrorStatuses, m \in {Lit("upstream says no"), Lit("upstream says never")}}
    \cup {TextResponse(st, Lit("Bad Gateway")) : st \in ErrorStatuses}
    \cup {JsonResponse(429, v, Lit("raw other body")) :
            v \in {PyDict(<<>>), PyDict([error |-> Lit("error text")]),
                   PyDict([error |-> PyStr(<<"see ", "message">>)]),
                   PyDict([error |-> PyNone]), PyDict([error |-> PyDict([code |-> PyInt(1)])]),
                   PyDict([error |-> PyList(<<Lit("message")>>)]),
                   PyInt(5), PyList(<<Lit("error")>>), Lit("error")}}

RelayUpstreams ==
    {Raises("Timeout"), Raises("RequestException")}
    \cup SuccessUpstreams \cup ErrorUpstreams

CorsUpstreams ==
    {Raises("Timeout"),
     JsonResponse(200, Canonical(Lit("stub text")), Lit("raw canonical")),
     JsonResponse(429, ErrorBody(Lit("upstream says no")), Lit("raw error body"))}

\* the requests the routes of src/lucid.py answer
Request(method, path, origin, acrh, data) ==
    [method |-> method, path |-> path, origin |-> origin, acrh |-> acrh, data |-> data]

LucidRequests(origins, bodies) ==
    {Request("OPTIONS", "/lucid", o, h, BadJson) : o \in origins, h \in RequestHeadersValues}
    \cup {Request("GET", "/", o, PyNone, BadJson) : o \in origins}
    \cup {Request("POST", "/lucid", o, PyNone, b) : o \in origins, b \in bodies}

NoRequest == Request("", "", PyNone, PyNone, BadJson)

Environ(allowed, upper, lower) ==
    [ALLOWED_ORIGINS |-> allowed, OPENAI_API_KEY |-> upper, openai_api_key |-> lower]

-----------------------------------------------------------------------------
(* The state machine of src/lucid.py. *)

\* the process has started with environment `environs`; no request yet
InitWith(environs) ==
    /\ environ \in environs
    /\ request = NoRequest
    /\ pc = "idle"
    /\ origin_to_send = PyNone
    /\ allow_credentials_post = FALSE
    /\ body = PyNone
    /\ used_temperature = PyNone
    /\ used_seed = PyNone
    /\ data_payload = PyNone
    /\ upstream_calls = 0
    /\ upstream_result = NotCalled
    /\ response = NoResponse

\* a request arrives
Receive(requests) ==
    /\ pc = "idle"
    /\ \E r \in requests : request' = r
    /\ pc' = "before_request"
    /\ origin_to_send' = PyNone
    /\ allow_credentials_post' = FALSE
    /\ body' = PyNone
    /\ used_temperature' = PyNone
    /\ used_seed' = PyNone
    /\ data_payload' = PyNone
    /\ upstream_calls' = 0
    /\ upstream_result' = NotCalled
    /\ response' = NoResponse
    /\ UNCHANGED environ

\* handle_preflight(): answers OPTIONS /lucid, lets every other request through
handle_preflight ==
    /\ pc = "before_request"
    /\ IF request.method = "OPTIONS" /\ request.path = "/lucid"
       THEN /\ response' = PreflightResponse(request, environ)
            /\ pc' = "responded"
       ELSE /\ pc' = "route"
            /\ UNCHANGED response
    /\ UNCHANGED <<environ, request, origin_to_send, allow_credentials_post, body,
                   used_temperature, used_seed, data_payload, upstream_calls,
                   upstream_result>>

\* hello_world(): GET /
hello_world ==
    /\ pc = "route"
    /\ request.method = "GET" /\ request.path = "/"
    /\ response' = HelloWorldResponse(request, environ)
    /\ pc' = "responded"
    /\ UNCHANGED <<environ, request, origin_to_send, allow_credentials_post, body,
                   used_temperature, used_seed, data_payload, upstream_calls,
                   upstream_result>>

\* lucid(), lines 221-257: the origin gate
lucid_cors_check ==
    /\ pc = "route"
    /\ request.method = "POST" /\ request.path = "/lucid"
    /\ LET d == LucidCorsDecision(request.origin, get_allowed_origins_config(environ))
       IN  /\ origin_to_send' = d.origin_to_send
           /\ allow_credentials_post' = d.allow_credentials_post
           /\ IF ~d.is_request_allowed
              THEN /\ response' = LucidForbiddenResponse(d)
                   /\ pc' = "responded"
              ELSE /\ pc' = "allowed"
                   /\ UNCHANGED response
    /\ UNCHANGED <<environ, request, body, used_temperature, used_seed, data_payload,
                   upstream_calls,
                   upstream_result>>

\* lucid(), lines 262-270: the body is decoded and parsed
lucid_load_body ==
    /\ pc = "allowed"
    /\ LET r == LoadBody(request.data)
       IN  IF r.exc # ""
           THEN /\ response' = FinalResponse(ExceptionOutcome(r.exc), origin_to_send,
                                             allow_credentials_post)
                /\ pc' = "responded"
                /\ UNCHANGED body
           ELSE /\ body' = r.v
                /\ pc' = "parsed"
                /\ UNCHANGED response
    /\ UNCHANGED <<environ, request, origin_to_send, allow_credentials_post,
                   used_temperature, used_seed, data_payload, upstream_calls,
                   upstream_result>>

\* lucid(), lines 274-342: key check, validation, parameters, and the call
lucid_prepare_call ==
    /\ pc = "parsed"
    /\ LET p == PrepareCall(body, environ)
       IN  IF p.step = "done"
           THEN /\ response' = FinalResponse(
                                IF p.exc # "" THEN ExceptionOutcome(p.exc) ELSE p.out,
                                origin_to_send, allow_credentials_post)
                /\ pc' = "responded"
                /\ UNCHANGED <<used_temperature, used_seed, data_payload, upstream_calls>>
           ELSE /\ used_temperature' = p.used_temperature
                /\ used_seed' = p.used_seed
                /\ data_payload' = p.data_payload
                /\ upstream_calls' = upstream_calls + 1
                /\ pc' = "upstream"
                /\ UNCHANGED response
    /\ UNCHANGED <<environ, request, origin_to_send, allow_credentials_post, body,
                   upstream_result>>

\* lucid(), lines 342-428: requests.post returns or raises, and lucid answers
lucid_upstream_returns(upstreams) ==
    /\ pc = "upstream"
    /\ \E u \in upstreams :
         /\ upstream_result' = u
         /\ response' = FinalResponse(UpstreamOutcome(u, used_temperature, used_seed),
                                      origin_to_send, allow_credentials_post)
    /\ pc' = "responded"
    /\ UNCHANGED <<environ, request, origin_to_send, allow_credentials_post, body,
                   used_temperature, used_seed, data_payload, upstream_calls>>

\* the response has been sent: Flask drops the request and what lucid() held
finish_request ==
    /\ pc = "responded"
    /\ pc' = "idle"
    /\ request' = NoRequest
    /\ origin_to_send' = PyNone
    /\ allow_credentials_post' = FALSE
    /\ body' = PyNone
    /\ used_temperature' = PyNone
    /\ used_seed' = PyNone
    /\ data_payload' = PyNone
    /\ upstream_calls' = 0
    /\ upstream_result' = NotCalled
    /\ response' = NoResponse
    /\ UNCHANGED environ

\* the environments of the specification of the origin policy
CorsEnvirons ==
    {Environ(a, k, PyNone) : a \in AllowedOriginsValues, k \in {PyNone, Lit("sk-key")}}

\* the environments of the specification of the relay
RelayEnvirons ==
    {Environ(a, u, l) : a \in {PyNone, Lit("a")}, u \in KeyValues, l \in KeyValues}

\* every request of the origin-policy specification
CorsRequests == LucidRequests(OriginValues, CorsBodies)

\* every request of the relay specification
RelayRequests == LucidRequests({PyNone, Lit("a"), Lit("b")}, RelayBodies)

Init == InitWith(CorsEnvirons)

Next ==
    \/ Receive(CorsRequests)
    \/ handle_preflight
    \/ hello_world
    \/ lucid_cors_check
    \/ lucid_load_body
    \/ lucid_prepare_call
    \/ lucid_upstream_returns(CorsUpstreams)
    \/ finish_request

\* the origin policy of src/lucid.py, for every environment and Origin header
Spec == Init /\ [][Next]_vars

InitRelay == InitWith(RelayEnvirons)

NextRelay ==
    \/ Receive(RelayRequests)
    \/ handle_preflight
    \/ hello_world
    \/ lucid_cors_check
    \/ lucid_load_body
    \/ lucid_prepare_call
    \/ lucid_upstream_returns(RelayUpstreams)
    \/ finish_request

\* the relay of src/lucid.py, for every request body and upstream behaviour
SpecRelay == InitRelay /\ [][NextRelay]_vars

-----------------------------------------------------------------------------
(* src/chatgolem.py, the earlier application: /chatgolem and /. *)

\* get_allowed_origins_config() of src/chatgolem.py
chatgolem_get_allowed_origins_config(env) ==
    LET origins_str == env.ALLOWED_ORIGINS
    IN  IF ~Truthy(origins_str)
        THEN <<Lit("*")>>
        ELSE StrippedNonEmpty(SplitComma(origins_str.v))

\* handle_preflight() of src/chatgolem.py, lines 41-62: the decision
ChatgolemPreflightDecision(origin, allowed_origins) ==
    IF InList(Lit("*"), allowed_origins)
    THEN [origin_to_send_in_header |-> Lit("*"), allow_credentials_value |-> Lit("false")]
    ELSE IF Truthy(origin) /\ InList(origin, allowed_origins)
    THEN [origin_to_send_in_header |-> origin, allow_credentials_value |-> Lit("true")]
    ELSE [origin_to_send_in_header |-> PyNone, allow_credentials_value |-> Lit("false")]

\* handle_preflight() of src/chatgolem.py: the response to OPTIONS /chatgolem
ChatgolemPreflightResponse(req, env) ==
    LET d == ChatgolemPreflightDecision(req.origin, chatgolem_get_allowed_origins_config(env))
        res == make_response(PyStr(<<>>), 204)
    IN  IF Truthy(d.origin_to_send_in_header)
        THEN [res EXCEPT
                !.headers[ACAO] = d.origin_to_send_in_header,
                !.headers[ACAM] = Lit("POST, OPTIONS"),
                !.headers[ACAH] = Lit("Content-Type"),
                !.headers[ACAC] = d.allow_credentials_value,
                !.headers[ACMA] = Lit("86400")]
        ELSE make_response(Lit("Origin not permitted for CORS preflight"), 403)

\* hello_world() of src/chatgolem.py: the response to GET /
ChatgolemHelloWorldResponse(req, env) ==
    LET allowed_origins == chatgolem_get_allowed_origins_config(env)
        resp == make_response(Lit("Hello world!"), 200)
        wildcard == InList(Lit("*"), allowed_origins)
        specific == ~wildcard /\ Truthy(req.origin) /\ InList(req.origin, allowed_origins)
    IN  IF wildcard \/ specific
        THEN [resp EXCEPT
                !.headers[ACAO] = IF wildcard THEN Lit("*") ELSE req.origin,
                !.headers[VARY] = Lit("Origin"),
                !.headers[ACAC] = IF specific THEN Lit("true") ELSE Lit("false")]
        ELSE resp

\* chatgolem(), lines 120-141: the origin gate of the POST request
ChatgolemCorsDecision(origin, allowed_origins) ==
    IF InList(Lit("*"), allowed_origins)
    THEN [origin_to_send |-> Lit("*"), is_request_allowed |-> TRUE,
          allow_credentials |-> Lit("false")]
    ELSE IF Truthy(origin) /\ InList(origin, allowed_origins)
    THEN [origin_to_send |-> origin, is_request_allowed |-> TRUE,
          allow_credentials |-> Lit("true")]
    ELSE [origin_to_send |-> PyNone, is_request_allowed |-> FALSE,
          allow_credentials |-> Lit("false")]

\* chatgolem(), lines 260-271: the except clauses of the try block
ChatgolemExceptionOutcome(exc) ==
    CASE exc = "Timeout" ->
            Outcome([error |-> Lit("OPENAI_TIMEOUT"),
                     message |-> Lit("The request to the AI service timed out.")], 504)
      [] exc \in {"RequestException", "ResponseJSONDecodeError"} ->
            Outcome([error |-> Lit("NETWORK_ERROR"),
                     message |-> Lit("Could not connect to OpenAI.")], 503)
      [] OTHER ->
            Outcome([error |-> Lit("INTERNAL_SERVER_ERROR"),
                     message |-> PyStr(<<"Error processing request: ", exc>>)], 500)

\* chatgolem(), lines 161-228: from the parse of the body to the upstream call
ChatgolemPrepareCall(post_data, env) ==
    LET b == LoadBody(post_data)
    IN  IF b.exc # "" THEN [step |-> "done", exc |-> b.exc]
        ELSE IF ~Truthy(env.openai_api_key)
        THEN [step |-> "done", exc |-> "",
              out |-> Outcome([error |-> Lit("OpenAI API key not found")], 500)]
        ELSE IF b.v.t # "dict" THEN [step |-> "done", exc |-> "AttributeError"]
        ELSE LET model == DictGet(b.v, "model", Lit("gpt-3.5-turbo"))
                 messages == DictGet(b.v, "messages", PyList(<<>>))
                 temp == ResolveTemperature(DictGet(b.v, "temperature", PyNone))
                 seed == ResolveSeed(DictGet(b.v, "seed", PyNone))
             IN  IF ~Truthy(messages)
                 THEN [step |-> "done", exc |-> "",
                       out |-> Outcome([error |-> Lit("Invalid input"),
                                        message |-> Lit("Messages list cannot be empty.")],
                                       400)]
                 ELSE IF temp.exc # "" THEN [step |-> "done", exc |-> temp.exc]
                 ELSE IF seed.exc # "" THEN [step |-> "done", exc |-> seed.exc]
                 ELSE [step |-> "call", used_temperature |-> temp.v, used_seed |-> seed.v,
                       data_payload |-> BuildPayload(model, messages, temp.v, seed.v)]

\* x.get(name) in Python: a dict method
PyGet(x, name) ==
    IF x.t = "dict" THEN Return(DictGet(x, name, PyNone)) ELSE Raise("AttributeError")

\* chatgolem(), line 235: whether the upstream body has choices[0].message.content
ChatgolemHasContent(resp_json) ==
    LET c == PyGet(resp_json, "choices")
        c0 == Subscript(c.v, PyInt(0))
        m == PyGet(c0.v, "message")
    IN  IF c.exc # "" THEN c
        ELSE IF ~Truthy(c.v) THEN Return(PyBool(FALSE))
        ELSE IF c.v.t \notin {"list", "str", "dict"} THEN Raise("TypeError")
        ELSE IF c0.exc # "" THEN c0
        ELSE IF m.exc # "" THEN m
        ELSE IF ~Truthy(m.v) THEN Return(PyBool(FALSE))
        ELSE PyContains("content", m.v)

\* chatgolem(), lines 229-256: the upstream response
ChatgolemResponseOutcome(response_openai, temperature, seed) ==
    LET j == IF response_openai.json THEN Return(response_openai.value)
             ELSE Raise("ResponseJSONDecodeError")
        has == ChatgolemHasContent(j.v)
        g == GeneratedText(j.v)
    IN  IF response_openai.status_code # 200
        THEN [exc |-> "",
              out |-> Outcome(
                [error |-> PyStr(<<"Failed OpenAI Call (",
                                   ToString(response_openai.status_code), ")">>),
                 details |-> response_openai.text], response_openai.status_code)]
        ELSE IF j.exc # "" THEN [exc |-> j.exc]
        ELSE IF has.exc # "" THEN [exc |-> has.exc]
        ELSE IF ~has.v.v
        THEN [exc |-> "",
              out |-> Outcome([error |-> Lit("INTERNAL_SERVER_ERROR"),
                               message |-> Lit("Invalid response format from AI.")], 500)]
        ELSE IF g.exc # "" THEN [exc |-> g.exc]
        ELSE [exc |-> "",
              out |-> Outcome(
                IF seed # PyNone
                THEN [generated_text |-> g.v, used_temperature |-> temperature,
                      used_seed |-> seed]
                ELSE [generated_text |-> g.v, used_temperature |-> temperature], 200)]

\* chatgolem(), lines 228-271: what the upstream call leads to
ChatgolemUpstreamOutcome(upstream, temperature, seed) ==
    IF upstream.raises # "" THEN ChatgolemExceptionOutcome(upstream.raises)
    ELSE LET r == ChatgolemResponseOutcome(upstream, temperature, seed)
         IN  IF r.exc # "" THEN ChatgolemExceptionOutcome(r.exc) ELSE r.out

\* chatgolem(), lines 276-281: the final response with its CORS headers
ChatgolemFinalResponse(out, ots, allow_credentials) ==
    LET resp == make_json_response(out.response_data, out.status_code)
    IN  [resp EXCEPT
            !.headers[ACAO] = ots,
            !.headers[VARY] = Lit("Origin"),
            !.headers[ACAC] = allow_credentials]

\* handle_preflight() of src/chatgolem.py
chatgolem_handle_preflight ==
    /\ pc = "before_request"
    /\ IF request.method = "OPTIONS" /\ request.path = "/chatgolem"
       THEN /\ response' = ChatgolemPreflightResponse(request, environ)
            /\ pc' = "responded"
       ELSE /\ pc' = "route"
            /\ UNCHANGED response
    /\ UNCHANGED <<environ, request, origin_to_send, allow_credentials_post, body,
                   used_temperature, used_seed, data_payload, upstream_calls,
                   upstream_result>>

\* hello_world() of src/chatgolem.py
chatgolem_hello_world ==
    /\ pc = "route"
    /\ request.method = "GET" /\ request.path = "/"
    /\ response' = ChatgolemHelloWorldResponse(request, environ)
    /\ pc' = "responded"
    /\ UNCHANGED <<environ, request, origin_to_send, allow_credentials_post, body,
                   used_temperature, used_seed, data_payload, upstream_calls,
                   upstream_result>>

\* chatgolem(), lines 113-228: the origin gate, the body, and the upstream call
chatgolem_begin ==
    /\ pc = "route"
    /\ request.method = "POST" /\ request.path = "/chatgolem"
    /\ LET d == ChatgolemCorsDecision(request.origin,
                                      chatgolem_get_allowed_origins_config(environ))
           p == ChatgolemPrepareCall(request.data, environ)
       IN  /\ origin_to_send' = d.origin_to_send
           /\ allow_credentials_post' = (d.allow_credentials = Lit("true"))
           /\ IF ~d.is_request_allowed
              THEN /\ response' = make_json_response(
                            [error |-> Lit("Forbidden"),
                             message |-> Lit("Origin not permitted.")], 403)
                   /\ pc' = "responded"
                   /\ UNCHANGED <<used_temperature, used_seed, data_payload, upstream_calls>>
              ELSE IF p.step = "done"
              THEN /\ response' = ChatgolemFinalResponse(
                            IF p.exc # "" THEN ChatgolemExceptionOutcome(p.exc) ELSE p.out,
                            d.origin_to_send, d.allow_credentials)
                   /\ pc' = "responded"
                   /\ UNCHANGED <<used_temperature, used_seed, data_payload, upstream_calls>>
              ELSE /\ used_temperature' = p.used_temperature
                   /\ used_seed' = p.used_seed
                   /\ data_payload' = p.data_payload
                   /\ upstream_calls' = upstream_calls + 1
                   /\ pc' = "upstream"
                   /\ UNCHANGED response
    /\ UNCHANGED <<environ, request, body, upstream_result>>

\* chatgolem(), lines 228-281: requests.post returns or raises
chatgolem_upstream_returns(upstreams) ==
    /\ pc = "upstream"
    /\ \E u \in upstreams :
         /\ upstream_result' = u
         /\ response' = ChatgolemFinalResponse(
                            ChatgolemUpstreamOutcome(u, used_temperature, used_seed),
                            origin_to_send,
                            IF allow_credentials_post THEN Lit("true") ELSE Lit("false"))
    /\ pc' = "responded"
    /\ UNCHANGED <<environ, request, origin_to_send, allow_credentials_post, body,
                   used_temperature, used_seed, data_payload, upstream_calls>>

ChatgolemRequests(origins, bodies) ==
    {Request("OPTIONS", "/chatgolem", o, h, BadJson) :
        o \in origins, h \in RequestHeadersValues}
    \cup {Request("GET", "/", o, PyNone, BadJson) : o \in origins}
    \cup {Request("POST", "/chatgolem", o, PyNone, b) : o \in origins, b \in bodies}

ChatgolemEnvirons ==
    {Environ(a, PyNone, k) : a \in AllowedOriginsValues, k \in {PyNone, Lit("sk-key")}}

ChatgolemUpstreams ==
    CorsUpstreams \cup {Raises("RequestException"), TextResponse(200, Lit("<html>")),
    JsonResponse(200, PyList(<<>>), Lit("[]")),
    JsonResponse(200, Choices(PyList(<<>>)), Lit("raw no choices"))}

\* every request of the chatgolem specification
ChatgolemCorsRequests == ChatgolemRequests(OriginValues, CorsBodies)

InitChatgolem == InitWith(ChatgolemEnvirons)

NextChatgolem ==
    \/ Receive(ChatgolemCorsRequests)
    \/ chatgolem_handle_preflight
    \/ chatgolem_hello_world
    \/ chatgolem_begin
    \/ chatgolem_upstream_returns(ChatgolemUpstreams)
    \/ finish_request

\* the application of src/chatgolem.py
SpecChatgolem == InitChatgolem /\ [][NextChatgolem]_vars

-----------------------------------------------------------------------------
(* src/lucid.py under concurrent requests.  The server handles several
   requests at a time, each in its own call of handle_preflight(),
   hello_world() or lucid(): flask.request is local to the request being
   handled and the names the handlers assign are locals of the call.  In
   SpecConcurrent every variable but environ therefore holds one value per
   handler, and a step is a step of one handler. *)

Handlers == 1..NumHandlers

\* a name kept at module level instead: every handler reads the same slot
SharedGlobal(f, i) == f[1]

\* a local of handler i: a name assigned inside its own call
OwnLocal(f, i) == f[i]

\* the requests, environments and upstream behaviours of SpecConcurrent
ConcurrentBodies ==
    {BadJson,
     Json(MakeBody(Missing, PyList(<<ValidMsg>>), Missing, Missing)),
     Json(MakeBody(Missing, PyList(<<ValidMsg>>), PyFloat(70), PyInt(42)))}

ConcurrentRequests ==
    {Request("OPTIONS", "/lucid", Lit("a"), PyNone, BadJson),
     Request("GET", "/", Lit("a"), PyNone, BadJson)}
    \cup {Request("POST", "/lucid", o, PyNone, b) :
            o \in {Lit("a"), Lit("b")}, b \in ConcurrentBodies}

ConcurrentEnvirons ==
    {Environ(PyNone, Lit("sk-key"), PyNone), Environ(Lit("a"), Lit("sk-key"), PyNone),
     Environ(Lit("a"), PyNone, PyNone)}

\* no handler has a request yet
InitConcurrent ==
    /\ environ \in ConcurrentEnvirons
    /\ request = [i \in Handlers |-> NoRequest]
    /\ pc = [i \in Handlers |-> "idle"]
    /\ origin_to_send = [i \in Handlers |-> PyNone]
    /\ allow_credentials_post = [i \in Handlers |-> FALSE]
    /\ body = [i \in Handlers |-> PyNone]
    /\ used_temperature = [i \in Handlers |-> PyNone]
    /\ used_seed = [i \in Handlers |-> PyNone]
    /\ data_payload = [i \in Handlers |-> PyNone]
    /\ upstream_calls = [i \in Handlers |-> 0]
    /\ upstream_result = [i \in Handlers |-> NotCalled]
    /\ response = [i \in Handlers |-> NoResponse]

\* a request arrives and handler i takes it
concurrent_receive(i) ==
    /\ pc[i] = "idle"
    /\ \E r \in ConcurrentRequests : request' = [request EXCEPT ![i] = r]
    /\ pc' = [pc EXCEPT ![i] = "before_request"]
    /\ UNCHANGED <<environ, origin_to_send, allow_credentials_post, body,
                   used_temperature, used_seed, data_payload, upstream_calls,
                   upstream_result, response>>

\* handle_preflight() in handler i
concurrent_handle_preflight(i) ==
    /\ pc[i] = "before_request"
    /\ IF request[i].method = "OPTIONS" /\ request[i].path = "/lucid"
       THEN /\ response' = [response EXCEPT ![i] = PreflightResponse(request[i], environ)]
            /\ pc' = [pc EXCEPT ![i] = "responded"]
       ELSE /\ pc' = [pc EXCEPT ![i] = "route"]
            /\ UNCHANGED response
    /\ UNCHANGED <<environ, request, origin_to_send, allow_credentials_post, body,
                   used_temperature, used_seed, data_payload, upstream_calls,
                   upstream_result>>

\* hello_world() in handler i
concurrent_hello_world(i) ==
    /\ pc[i] = "route"
    /\ request[i].method = "GET" /\ request[i].path = "/"
    /\ response' = [response EXCEPT ![i] = HelloWorldResponse(request[i], environ)]
    /\ pc' = [pc EXCEPT ![i] = "responded"]
    /\ UNCHANGED <<environ, request, origin_to_send, allow_credentials_post, body,
                   used_temperature, used_seed, data_payload, upstream_calls,
                   upstream_result>>

\* lucid() in handler i, lines 221-257: the origin gate
concurrent_lucid_cors_check(i) ==
    /\ pc[i] = "route"
    /\ request[i].method = "POST" /\ request[i].path = "/lucid"
    /\ LET d == LucidCorsDecision(request[i].origin, get_allowed_origins_config(environ))
       IN  /\ origin_to_send' = [origin_to_send EXCEPT ![i] = d.origin_to_send]
           /\ allow_credentials_post' =
                [allow_credentials_post EXCEPT ![i] = d.allow_credentials_post]
           /\ IF ~d.is_request_allowed
              THEN /\ response' = [response EXCEPT ![i] = LucidForbiddenResponse(d)]
                   /\ pc' = [pc EXCEPT ![i] = "responded"]
              ELSE /\ pc' = [pc EXCEPT ![i] = "allowed"]
                   /\ UNCHANGED response
    /\ UNCHANGED <<environ, request, body, used_temperature, used_seed, data_payload,
                   upstream_calls, upstream_result>>

\* lucid() in handler i, lines 262-270: the body is decoded and parsed
concurrent_lucid_load_body(i) ==
    /\ pc[i] = "allowed"
    /\ LET r == LoadBody(request[i].data)
       IN  IF r.exc # ""
           THEN /\ response' = [response EXCEPT ![i] =
                        FinalResponse(ExceptionOutcome(r.exc),
                                      OwnLocal(origin_to_send, i),
                                      OwnLocal(allow_credentials_post, i))]
                /\ pc' = [pc EXCEPT ![i] = "responded"]
                /\ UNCHANGED body
           ELSE /\ body' = [body EXCEPT ![i] = r.v]
                /\ pc' = [pc EXCEPT ![i] = "parsed"]
                /\ UNCHANGED response
    /\ UNCHANGED <<environ, request, origin_to_send, allow_credentials_post,
                   used_temperature, used_seed, data_payload, upstream_calls,
                   upstream_result>>

\* lucid() in handler i, lines 274-342: key check, validation, parameters, call
concurrent_lucid_prepare_call(i) ==
    /\ pc[i] = "parsed"
    /\ LET p == PrepareCall(OwnLocal(body, i), environ)
       IN  IF p.step = "done"
           THEN /\ response' = [response EXCEPT ![i] =
                        FinalResponse(IF p.exc # "" THEN ExceptionOutcome(p.exc) ELSE p.out,
                                      OwnLocal(origin_to_send, i),
                                      OwnLocal(allow_credentials_post, i))]
                /\ pc' = [pc EXCEPT ![i] = "responded"]
                /\ UNCHANGED <<used_temperature, used_seed, data_payload, upstream_calls>>
           ELSE /\ used_temperature' = [used_temperature EXCEPT ![i] = p.used_temperature]
                /\ used_seed' = [used_seed EXCEPT ![i] = p.used_seed]
                /\ data_payload' = [data_payload EXCEPT ![i] = p.data_payload]
                /\ upstream_calls' = [upstream_calls EXCEPT ![i] = @ + 1]
                /\ pc' = [pc EXCEPT ![i] = "upstream"]
                /\ UNCHANGED response
    /\ UNCHANGED <<environ, request, origin_to_send, allow_credentials_post, body,
                   upstream_result>>

\* lucid() in handler i, lines 342-428: requests.post returns or raises
concurrent_lucid_upstream_returns(i) ==
    /\ pc[i] = "upstream"
    /\ \E u \in CorsUpstreams :
         /\ upstream_result' = [upstream_result EXCEPT ![i] = u]
         /\ response' = [response EXCEPT ![i] =
                FinalResponse(UpstreamOutcome(u, OwnLocal(used_temperature, i),
                                              OwnLocal(used_seed, i)),
                              OwnLocal(origin_to_send, i),
                              OwnLocal(allow_credentials_post, i))]
    /\ pc' = [pc EXCEPT ![i] = "responded"]
    /\ UNCHANGED <<environ, request, origin_to_send, allow_credentials_post, body,
                   used_temperature, used_seed, data_payload, upstream_calls>>

\* handler i has sent its response: its request and its locals are dropped
concurrent_finish_request(i) ==
    /\ pc[i] = "responded"
    /\ pc' = [pc EXCEPT ![i] = "idle"]
    /\ request' = [request EXCEPT ![i] = NoRequest]
    /\ origin_to_send' = [origin_to_send EXCEPT ![i] = PyNone]
    /\ allow_credentials_post' = [allow_credentials_post EXCEPT ![i] = FALSE]
    /\ body' = [body EXCEPT ![i] = PyNone]
    /\ used_temperature' = [used_temperature EXCEPT ![i] = PyNone]
    /\ used_seed' = [used_seed EXCEPT ![i] = PyNone]
    /\ data_payload' = [data_payload EXCEPT ![i] = PyNone]
    /\ upstream_calls' = [upstream_calls EXCEPT ![i] = 0]
    /\ upstream_result' = [upstream_result EXCEPT ![i] = NotCalled]
    /\ response' = [response EXCEPT ![i] = NoResponse]
    /\ UNCHANGED environ

NextConcurrent ==
    \/ \E i \in Handlers : concurrent_receive(i)
    \/ \E i \in Handlers : concurrent_handle_preflight(i)
    \/ \E i \in Handlers : concurrent_hello_world(i)
    \/ \E i \in Handlers : concurrent_lucid_cors_check(i)
    \/ \E i \in Handlers : concurrent_lucid_load_body(i)
    \/ \E i \in Handlers : concurrent_lucid_prepare_call(i)
    \/ \E i \in Handlers : concurrent_lucid_upstream_returns(i)
    \/ \E i \in Handlers : concurrent_finish_request(i)

\* src/lucid.py handling NumHandlers requests at a time, in any interleaving
SpecConcurrent == InitConcurrent /\ [][NextConcurrent]_vars

-----------------------------------------------------------------------------
(* The properties of the origin policy of src/lucid.py (under Spec). *)

\* the allow-list of the running process
AllowedOrigins == get_allowed_origins_config(environ)

\* "*" is an entry of the allow-list, alone or with others
HasWildcard == \E i \in 1..Len(AllowedOrigins) : AllowedOrigins[i] = Lit("*")

\* the Origin header of the request equals an entry character for character
OriginMatches ==
    /\ request.origin # PyNone
    /\ \E i \in 1..Len(AllowedOrigins) : AllowedOrigins[i] = request.origin

\* the request is OPTIONS /lucid or POST /lucid
ToLucid == request.path = "/lucid" /\ request.method \in {"OPTIONS", "POST"}

\* the response is the 403 of the origin gate of lucid()
IsForbidden ==
    /\ response.status = 403
    /\ response.body = PyDict([error |-> Lit("Forbidden"),
                               message |-> Lit("Origin not permitted.")])

\* C1: when the allow-list contains "*", alone or alongside other origins,
\* then for every Origin header, absent included: OPTIONS /lucid is answered
\* 204, POST /lucid is never answered by the 403 of the origin gate (and a
\* POST at the gate goes on to the body), Access-Control-Allow-Origin is "*",
\* and no response of OPTIONS /lucid, POST /lucid or GET / carries
\* Access-Control-Allow-Credentials.
C1_WildcardAllowsAll ==
    HasWildcard =>
        /\ (pc = "route" /\ request.method = "POST") =>
                LucidCorsDecision(request.origin, AllowedOrigins).is_request_allowed
        /\ pc = "responded" =>
                /\ response.headers[ACAC] = PyNone
                /\ response.headers[ACAO] = Lit("*")
                /\ request.method = "OPTIONS" => response.status = 204
                /\ request.method = "POST" => ~IsForbidden

\* C1 happens: "*" stands beside a specific origin in the allow-list, a POST
\* without an Origin header has gone through to the upstream API and back
C1_Witness ==
    /\ environ.ALLOWED_ORIGINS = PyStr(<<"a", ",", "*">>)
    /\ pc = "responded"
    /\ request.method = "POST"
    /\ request.origin = PyNone
    /\ response.status = 200
    /\ response.headers[ACAO] = Lit("*")

\* C2: when the allow-list has no "*" and the Origin header equals one of its
\* entries character for character, every response to OPTIONS /lucid and to
\* POST /lucid (success, 4xx or 5xx) is not the 403 of the origin gate and
\* carries Access-Control-Allow-Origin equal to that origin,
\* Access-Control-Allow-Credentials: true, and Vary: Origin.
C2_ExactMatchReflected ==
    (pc = "responded" /\ ToLucid /\ ~HasWildcard /\ OriginMatches) =>
        /\ ~IsForbidden
        /\ response.headers[ACAO] = request.origin
        /\ response.headers[ACAC] = Lit("true")
        /\ response.headers[VARY] = Lit("Origin")

\* C3: when the allow-list has no "*", an OPTIONS /lucid or POST /lucid whose
\* Origin header is absent, empty, or equal to no entry is answered 403, and
\* the 403 carries none of Access-Control-Allow-Origin,
\* Access-Control-Allow-Credentials, Access-Control-Allow-Methods,
\* Access-Control-Allow-Headers and Vary.
C3_DeniedWithoutCorsHeaders ==
    (pc = "responded" /\ ToLucid /\ ~HasWildcard
        /\ (request.origin = PyNone \/ request.origin = PyStr(<<>>) \/ ~OriginMatches)) =>
        /\ response.status = 403
        /\ \A h \in {ACAO, ACAC, ACAM, ACAH, VARY} : response.headers[h] = PyNone

\* C3 happens: a POST whose Origin is an entry followed by a space is denied
C3_Witness ==
    /\ environ.ALLOWED_ORIGINS = PyStr(<<"a">>)
    /\ pc = "responded"
    /\ request.method = "POST"
    /\ request.origin = PyStr(<<"a", " ">>)
    /\ response.status = 403

\* C4: on every response of OPTIONS /lucid, POST /lucid and GET /, for every
\* policy and Origin header, Access-Control-Allow-Credentials is absent or is
\* the literal "true", and it is absent whenever Access-Control-Allow-Origin
\* is "*".
C4_CredentialsTrueOrAbsent ==
    pc = "responded" =>
        /\ response.headers[ACAC] \in {PyNone, Lit("true")}
        /\ response.headers[ACAO] = Lit("*") => response.headers[ACAC] = PyNone

\* C4 happens: GET / from an origin of the allow-list carries the header
C4_Witness ==
    /\ pc = "responded"
    /\ request.method = "GET"
    /\ ~HasWildcard
    /\ response.headers[ACAO] = request.origin
    /\ response.headers[ACAC] = Lit("true")

-----------------------------------------------------------------------------
(* The property of the credentials header of src/chatgolem.py (under
   SpecChatgolem). *)

\* C5: no response of OPTIONS /chatgolem, POST /chatgolem or GET / of
\* src/chatgolem.py carries Access-Control-Allow-Credentials with the value
\* "false", and none carries the header together with
\* Access-Control-Allow-Origin "*".
C5_ChatgolemNeverFalse ==
    pc = "responded" =>
        /\ response.headers[ACAC] # Lit("false")
        /\ response.headers[ACAO] = Lit("*") => response.headers[ACAC] = PyNone

-----------------------------------------------------------------------------
(* The properties of the relay of src/lucid.py (under SpecRelay). *)

\* the request is a POST /lucid from an allowed origin
AllowedPost ==
    /\ request.method = "POST" /\ request.path = "/lucid"
    /\ HasWildcard \/ OriginMatches

\* the body of the request parses as a JSON object
JsonObjectBody ==
    request.data.utf8 /\ request.data.json /\ request.data.value.t = "dict"

\* no API key is configured under either name
NoKeyConfigured ==
    /\ environ.OPENAI_API_KEY \in {PyNone, PyStr(<<>>)}
    /\ environ.openai_api_key \in {PyNone, PyStr(<<>>)}

\* `messages` of the JSON object is missing, empty, or not a list
MessagesUnusable ==
    \/ "messages" \notin DOMAIN request.data.value.v
    \/ request.data.value.v.messages.t # "list"
    \/ request.data.value.v.messages = PyList(<<>>)

\* the `error` field of the JSON body of the response
ResponseError == response.body.v.error

\* C6: when no API key is configured under OPENAI_API_KEY or openai_api_key,
\* every POST /lucid from an allowed origin whose body parses as a JSON
\* object is answered 500 with the error "Configuration Error", and no
\* upstream call is made for the request.
C6_NoKeyConfigurationError ==
    (AllowedPost /\ JsonObjectBody /\ NoKeyConfigured) =>
        /\ upstream_calls = 0
        /\ pc # "upstream"
        /\ pc = "responded" =>
                /\ response.status = 500
                /\ ResponseError = Lit("Configuration Error")

\* C6 happens: both names hold the empty string, the messages are valid
C6_Witness ==
    /\ environ.OPENAI_API_KEY = PyStr(<<>>)
    /\ environ.openai_api_key = PyStr(<<>>)
    /\ AllowedPost /\ JsonObjectBody
    /\ DictGet(request.data.value, "messages", PyNone) = PyList(<<ValidMsg>>)
    /\ pc = "responded"
    /\ response.status = 500

\* C7: for every configuration, with or without an API key, a POST /lucid
\* from an allowed origin whose JSON body has `messages` missing, empty, or
\* not a list is answered 400 with the error "Bad Request", and no upstream
\* call is made.
C7_BadMessagesAnyConfiguration ==
    (AllowedPost /\ JsonObjectBody /\ MessagesUnusable) =>
        /\ upstream_calls = 0
        /\ pc = "responded" =>
                /\ response.status = 400
                /\ ResponseError = Lit("Bad Request")

\* C8: every POST /lucid from an allowed origin whose body is not valid UTF-8
\* or not valid JSON is answered 400, never 500, and no upstream call is made.
C8_UndecodableBodyIs400 ==
    (AllowedPost /\ (~request.data.utf8 \/ ~request.data.json)) =>
        /\ upstream_calls = 0
        /\ pc = "responded" => response.status = 400

\* an entry of `messages` with a role of system, user or assistant and a
\* string content
ValidEntry(m) ==
    /\ m.t = "dict"
    /\ "role" \in DOMAIN m.v /\ "content" \in DOMAIN m.v
    /\ m.v.role \in {Lit("system"), Lit("user"), Lit("assistant")}
    /\ m.v.content.t = "str"

\* C9: a POST /lucid (from an allowed origin, with a key configured) whose
\* `messages` list has an entry without a role of system, user or assistant
\* or without a string content is answered 400 and never forwarded to the
\* upstream API.
C9_InvalidEntryRejected ==
    (AllowedPost /\ JsonObjectBody /\ ~NoKeyConfigured /\ ~MessagesUnusable
        /\ \E i \in 1..Len(request.data.value.v.messages.v) :
                ~ValidEntry(request.data.value.v.messages.v[i])) =>
        /\ upstream_calls = 0
        /\ pc = "responded" => response.status = 400

\* C10: when the upstream call of a POST /lucid times out, the response is
\* 504 with the error "Gateway Timeout", its body has no generated_text and
\* nothing but the fixed `error` and `message` of the timeout, and the
\* upstream has been called once for the request; no request calls it twice.
C10_TimeoutIs504 ==
    /\ upstream_calls <= 1
    /\ upstream_result = Raises("Timeout") =>
            /\ pc = "responded"
            /\ response.status = 504
            /\ ResponseError = Lit("Gateway Timeout")
            /\ "generated_text" \notin DOMAIN response.body.v
            /\ response.body = PyDict([error |-> Lit("Gateway Timeout"),
                                       message |-> Lit("Request to AI service timed out.")])
            /\ upstream_calls = 1

\* C10 happens: the upstream call of a request has timed out
C10_Witness ==
    /\ pc = "responded"
    /\ request.method = "POST"
    /\ upstream_result = Raises("Timeout")
    /\ upstream_calls = 1
    /\ response.status = 504

-----------------------------------------------------------------------------
(* The properties of the upstream response and of the parameters of
   src/lucid.py (under SpecRelay). *)

\* requests.post has returned a response for the request
UpstreamAnswered == pc = "responded" /\ upstream_result.raises = ""

\* the error.message of an upstream body that is JSON of the shape
\* {"error": {"message": ...}}, and the raw upstream body otherwise
UpstreamErrorMessage(u) ==
    IF /\ u.json
       /\ u.value.t = "dict"
       /\ "error" \in DOMAIN u.value.v
       /\ u.value.v.error.t = "dict"
       /\ "message" \in DOMAIN u.value.v.error.v
    THEN u.value.v.error.v.message
    ELSE u.text

\* C11: for every upstream HTTP status s other than 200 (s an HTTP status,
\* below 600), the response to POST /lucid has status s, and its `message`
\* is the upstream's error.message when the upstream body is JSON of that
\* shape and the raw upstream body otherwise.
C11_UpstreamStatusForwarded ==
    (UpstreamAnswered /\ upstream_result.status_code # 200
        /\ upstream_result.status_code < 600) =>
        /\ response.status = upstream_result.status_code
        /\ "message" \in DOMAIN response.body.v
        /\ response.body.v.message = UpstreamErrorMessage(upstream_result)

\* the upstream body is JSON that has choices[0].message.content
HasContentShape(u) ==
    /\ u.json
    /\ u.value.t = "dict"
    /\ "choices" \in DOMAIN u.value.v
    /\ u.value.v.choices.t = "list"
    /\ u.value.v.choices.v # <<>>
    /\ u.value.v.choices.v[1].t = "dict"
    /\ "message" \in DOMAIN u.value.v.choices.v[1].v
    /\ u.value.v.choices.v[1].v.message.t = "dict"
    /\ "content" \in DOMAIN u.value.v.choices.v[1].v.message.v

\* C12: when the upstream answers 200 with a body that is not JSON or lacks
\* choices[0].message.content, the response is 500 with an error envelope and
\* no generated_text; when the shape is there, the response is 200 with
\* generated_text equal to that content.
C12_MalformedUpstreamIs500 ==
    (UpstreamAnswered /\ upstream_result.status_code = 200) =>
        IF HasContentShape(upstream_result)
        THEN /\ response.status = 200
             /\ response.body.v.generated_text =
                    upstream_result.value.v.choices.v[1].v.message.v.content
        ELSE /\ response.status = 500
             /\ {"error", "message"} \subseteq DOMAIN response.body.v
             /\ "generated_text" \notin DOMAIN response.body.v

\* C12 happens: the upstream answered 200 with choices whose message has no
\* content, and the response is the 500 of an invalid format
C12_Witness ==
    /\ UpstreamAnswered
    /\ upstream_result.status_code = 200
    /\ upstream_result.value = Choices(PyList(<<PyDict([message |-> PyDict(<<>>)])>>))
    /\ response.status = 500
    /\ ResponseError = Lit("Internal Server Error")

\* the request is a POST /lucid from an allowed origin, with a key configured
\* and a JSON object whose `messages` is a list with entries: it gets as far
\* as the parameters
ReachesParameters ==
    AllowedPost /\ JsonObjectBody /\ ~NoKeyConfigured /\ ~MessagesUnusable

\* the `temperature` and the `seed` of the JSON object, None when left out
GivenTemperature == DictGet(request.data.value, "temperature", PyNone)
GivenSeed == DictGet(request.data.value, "seed", PyNone)

\* the temperature t, in hundredths, that a value in [0.0, 2.0] denotes:
\* a number, or a numeral in a string
InRangeTemperature(x) ==
    \/ x.t \in {"float"} /\ 0 <= x.v /\ x.v <= 200
    \/ x.t = "int" /\ 0 <= x.v /\ x.v <= 2
    \/ x.t = "bool"
    \/ x.t = "str" /\ FloatOfStr(x.v).exc = "" /\ 0 <= FloatOfStr(x.v).v.v
          /\ FloatOfStr(x.v).v.v <= 200

\* C13: the temperature sent upstream and echoed as used_temperature lies in
\* [0.0, 2.0]; a supplied temperature in that range is used unchanged, and an
\* absent, unparseable or out-of-range one resolves to 1.0 without failing
\* the request: a request that gets as far as the parameters (its seed left
\* out) goes on to the upstream call.
C13_TemperatureInRange ==
    (ReachesParameters /\ GivenSeed = PyNone /\ pc \in {"upstream", "responded"}) =>
        /\ upstream_calls = 1
        /\ used_temperature.t = "float"
        /\ 0 <= used_temperature.v /\ used_temperature.v <= 200
        /\ data_payload.v.temperature = used_temperature
        /\ IF InRangeTemperature(GivenTemperature)
           THEN used_temperature = PyFloatOf(GivenTemperature).v
           ELSE used_temperature = PyFloat(100)

\* C14: resolving the parameters is idempotent: the used_temperature and
\* used_seed that lucid() resolved from the request, resolved again, give
\* the same used_temperature and used_seed.
C14_ResolutionIdempotent ==
    (pc \in {"upstream", "responded"} /\ upstream_calls = 1) =>
        /\ ResolveTemperature(used_temperature) = Return(used_temperature)
        /\ ResolveSeed(used_seed) = Return(used_seed)

\* C14 happens: a temperature and a seed given as strings have been resolved
\* to numbers, and the upstream call is under way
C14_Witness ==
    /\ pc = "upstream"
    /\ ReachesParameters
    /\ GivenTemperature = PyStr(<<"0", ".", "5">>)
    /\ GivenSeed = PyStr(<<"4", "2">>)
    /\ used_temperature = PyFloat(50)
    /\ used_seed = PyInt(42)

\* the value cannot be parsed as an integer
NotAnInteger(x) ==
    \/ x.t \in {"list", "dict", "nan", "inf"}
    \/ x.t = "str" /\ IntOfStr(x.v).exc # ""

\* C15: for every value of `seed`, a value that cannot be parsed as an
\* integer resolves to unset and never fails the request: a request that
\* gets as far as the parameters (its temperature left out) goes on to the
\* upstream call; and `seed` is in the upstream payload exactly when a seed
\* was resolved.
C15_SeedNeverFails ==
    (ReachesParameters /\ GivenTemperature = PyNone /\ pc \in {"upstream", "responded"}) =>
        /\ upstream_calls = 1
        /\ NotAnInteger(GivenSeed) => used_seed = PyNone
        /\ "seed" \in DOMAIN data_payload.v <=> used_seed # PyNone

\* the upstream answered 200 with the canonical body, its content a text
CanonicalSuccess ==
    /\ UpstreamAnswered
    /\ upstream_result.status_code = 200
    /\ HasContentShape(upstream_result)
    /\ upstream_result.value.v.choices.v[1].v.message.v.content.t = "str"

\* C16: a well-formed POST /lucid whose upstream call returns a canonical
\* success body is answered 200 with a body of exactly generated_text (the
\* upstream text) and used_temperature, plus used_seed if and only if a seed
\* was resolved (one was sent upstream); when the request gave no
\* temperature, used_temperature is 1.0.
C16_SuccessBody ==
    CanonicalSuccess =>
        /\ response.status = 200
        /\ DOMAIN response.body.v =
                {"generated_text", "used_temperature"}
                    \cup (IF "seed" \in DOMAIN data_payload.v THEN {"used_seed"} ELSE {})
        /\ response.body.v.generated_text =
                upstream_result.value.v.choices.v[1].v.message.v.content
        /\ response.body.v.used_temperature = data_payload.v.temperature
        /\ "seed" \in DOMAIN data_payload.v =>
                response.body.v.used_seed = data_payload.v.seed
        /\ "temperature" \notin DOMAIN request.data.value.v =>
                response.body.v.used_temperature = PyFloat(100)

\* C16 happens: a request with the seed 0 and no temperature got the stub
\* text back, with used_seed 0 and used_temperature 1.0
C16_Witness ==
    /\ CanonicalSuccess
    /\ "temperature" \notin DOMAIN request.data.value.v
    /\ GivenSeed = PyInt(0)
    /\ response.status = 200
    /\ response.body.v = [generated_text |-> Lit("stub text"),
                          used_temperature |-> PyFloat(100), used_seed |-> PyInt(0)]

\* C17: every POST /lucid, on every path (the origin gate, the body, the key,
\* the messages, the parameters, the upstream call and its body), ends in a
\* response with an HTTP status whose body is either the success body or a
\* JSON error envelope with both an `error` and a `message` field; no path
\* stops short of a response.
C17_AlwaysAnEnvelope ==
    request.method = "POST" =>
        /\ pc \in {"before_request", "route", "allowed", "parsed"} =>
                ENABLED (handle_preflight \/ lucid_cors_check \/ lucid_load_body
                            \/ lucid_prepare_call)
        /\ pc = "upstream" => ENABLED lucid_upstream_returns(RelayUpstreams)
        /\ pc = "responded" =>
                /\ response.status \in 100..599
                /\ response.headers[CTYPE] = Lit("application/json")
                /\ response.body.t = "dict"
                /\ \/ /\ response.status = 200
                      /\ {"generated_text", "used_temperature"}
                            \subseteq DOMAIN response.body.v
                   \/ {"error", "message"} \subseteq DOMAIN response.body.v

\* C17 happens: a body that is not UTF-8 raised UnicodeDecodeError, which the
\* catch-all turned into the 500 envelope
C17_Witness ==
    /\ pc = "responded"
    /\ request.method = "POST"
    /\ ~request.data.utf8
    /\ response.status = 500
    /\ response.body = PyDict([error |-> Lit("Internal Server Error"),
            message |-> Lit("An unexpected error occurred processing the request.")])

\* C18: when the upstream rejects the server-held key (upstream 401 or 403),
\* the body of the response does not depend on the upstream response body:
\* had the upstream answered the same status with any other body, the client
\* would have got the same body.
C18_AuthFailureGeneric ==
    (UpstreamAnswered /\ upstream_result.status_code \in {401, 403}) =>
        \A other \in RelayUpstreams :
            (other.raises = "" /\ other.status_code = upstream_result.status_code) =>
                FinalResponse(UpstreamOutcome(other, used_temperature, used_seed),
                              origin_to_send, allow_credentials_post).body = response.body

-----------------------------------------------------------------------------
(* The property of the preflight of src/lucid.py (under Spec). *)

\* C19: every allowed OPTIONS /lucid is answered 204 with an empty body by
\* the before-request hook: the route handlers never run for it and no
\* upstream call is made; its Access-Control-Allow-Headers is the request's
\* Access-Control-Request-Headers verbatim when that is present and not
\* empty, and "Content-Type" otherwise.
C19_PreflightEchoesHeaders ==
    (request.method = "OPTIONS" /\ request.path = "/lucid"
        /\ (HasWildcard \/ OriginMatches)) =>
        /\ pc \in {"before_request", "responded"}
        /\ upstream_calls = 0
        /\ pc = "responded" =>
                /\ response.status = 204
                /\ response.body = PyStr(<<>>)
                /\ response.headers[ACAH] =
                        IF request.acrh \notin {PyNone, PyStr(<<>>)}
                        THEN request.acrh ELSE Lit("Content-Type")

\* C19 happens: a preflight with an empty Access-Control-Request-Headers from
\* an origin of the allow-list got the default
C19_Witness ==
    /\ pc = "responded"
    /\ request.method = "OPTIONS"
    /\ ~HasWildcard /\ OriginMatches
    /\ request.acrh = PyStr(<<>>)
    /\ response.status = 204
    /\ response.headers[ACAH] = Lit("Content-Type")

-----------------------------------------------------------------------------
(* The independence of concurrently handled requests (under SpecConcurrent). *)

\* what lucid() computes before the upstream call, from one request and the
\* environment alone
OwnDecision(req) == LucidCorsDecision(req.origin, get_allowed_origins_config(environ))
OwnBody(req) == LoadBody(req.data)
OwnCall(req) == PrepareCall(OwnBody(req).v, environ)

\* the response to one request handled on its own: a function of the request,
\* the environment and the outcome of the request's own upstream call
OwnResponse(req, upstream) ==
    IF req.method = "OPTIONS" THEN PreflightResponse(req, environ)
    ELSE IF req.method = "GET" THEN HelloWorldResponse(req, environ)
    ELSE IF ~OwnDecision(req).is_request_allowed
         THEN LucidForbiddenResponse(OwnDecision(req))
    ELSE FinalResponse(
            IF OwnBody(req).exc # "" THEN ExceptionOutcome(OwnBody(req).exc)
            ELSE IF OwnCall(req).step = "done"
                 THEN (IF OwnCall(req).exc # "" THEN ExceptionOutcome(OwnCall(req).exc)
                       ELSE OwnCall(req).out)
            ELSE UpstreamOutcome(upstream, OwnCall(req).used_temperature,
                                 OwnCall(req).used_seed),
            OwnDecision(req).origin_to_send, OwnDecision(req).allow_credentials_post)

\* the locals handler i holds are the ones its own request gives
OwnLocalsOnly(i) ==
    /\ pc[i] \in {"allowed", "parsed", "upstream"} =>
         /\ origin_to_send[i] = OwnDecision(request[i]).origin_to_send
         /\ allow_credentials_post[i] = OwnDecision(request[i]).allow_credentials_post
    /\ pc[i] \in {"parsed", "upstream"} => body[i] = OwnBody(request[i]).v
    /\ pc[i] = "upstream" =>
         /\ used_temperature[i] = OwnCall(request[i]).used_temperature
         /\ used_seed[i] = OwnCall(request[i]).used_seed
         /\ data_payload[i] = OwnCall(request[i]).data_payload
         /\ upstream_calls[i] = 1
    /\ pc[i] \in {"idle", "before_request", "route", "allowed", "parsed"} =>
         upstream_calls[i] = 0 /\ upstream_result[i] = NotCalled

\* C20: however the steps of the requests handled at the same time interleave,
\* with the environment fixed, the response to each request is the one its own
\* method, path, headers and body, the configuration and the outcome of its own
\* upstream call give, and the values its handling holds are the ones its own
\* request produced, never another request's.
C20_RequestsIndependent ==
    \A i \in Handlers :
        /\ OwnLocalsOnly(i)
        /\ pc[i] = "responded" => response[i] = OwnResponse(request[i], upstream_result[i])

\* two requests from different origins handled at the same time, both past
\* their own upstream call, answered differently
C20_Witness ==
    /\ pc[1] = "responded" /\ pc[2] = "responded"
    /\ request[1].method = "POST" /\ request[2].method = "POST"
    /\ request[1].origin # request[2].origin
    /\ upstream_calls[1] = 1 /\ upstream_calls[2] = 1
    /\ upstream_result[1] # upstream_result[2]
    /\ response[1] # response[2]
    /\ response[2].status = 200

-----------------------------------------------------------------------------
(* The stages of one POST /lucid (under SpecRelay). *)

\* the position of a stage in the order of lucid()
StageRank(stage) ==
    CASE stage = "idle" -> 0
      [] stage = "before_request" -> 1
      [] stage = "route" -> 2
      [] stage = "allowed" -> 3
      [] stage = "parsed" -> 4
      [] stage = "upstream" -> 5
      [] stage = "responded" -> 6

\* the request is a POST /lucid being handled
PostInHand == request.method = "POST" /\ request.path = "/lucid"

\* some step of lucid() can be taken
LucidCanStep ==
    ENABLED (lucid_cors_check \/ lucid_load_body \/ lucid_prepare_call
                \/ lucid_upstream_returns(RelayUpstreams))

\* C21: each POST /lucid moves through its stages forward only, no stage twice:
\* the upstream call is made at most once, and only from the stage where the
\* origin was allowed, the body parsed as JSON, an API key found and `messages`
\* accepted by the check of lucid(); a response is produced once, on entering
\* the last stage, and every earlier stage has a step to take; a request
\* denied at the origin gate is answered with its body unparsed and no
\* upstream call.
C21_StagesForwardOnly ==
    [][ PostInHand =>
          /\ \/ StageRank(pc') > StageRank(pc)
             \/ pc = "responded" /\ pc' = "idle"
          /\ pc \in {"route", "allowed", "parsed", "upstream"} => LucidCanStep
          /\ upstream_calls' # upstream_calls =>
                \/ pc = "responded" /\ pc' = "idle"
                \/ /\ upstream_calls = 0 /\ upstream_calls' = 1
                   /\ pc = "parsed" /\ pc' = "upstream"
                   /\ AllowedPost /\ JsonObjectBody /\ body = request.data.value
                   /\ ~NoKeyConfigured /\ ~MessagesUnusable
          /\ response' # response =>
                \/ pc = "responded" /\ pc' = "idle"
                \/ response = NoResponse /\ pc # "responded" /\ pc' = "responded"
          /\ pc' = "responded" => response' # NoResponse
          /\ (pc' = "responded" /\ ~AllowedPost) =>
                /\ response'.status = 403
                /\ body' = PyNone
                /\ upstream_calls' = 0 /\ upstream_result' = NotCalled
      ]_vars

\* C21 happens: a request has gone through every stage, its one upstream call
\* made and answered
C21_Witness ==
    /\ pc = "responded" /\ PostInHand
    /\ AllowedPost /\ JsonObjectBody /\ ~NoKeyConfigured /\ ~MessagesUnusable
    /\ upstream_calls = 1
    /\ upstream_result # NotCalled
    /\ response.status = 200

-----------------------------------------------------------------------------
(* The agreement of the preflight and of the request it announces (under Spec). *)

\* the answer handle_preflight() gives to the preflight of the request in hand
OwnPreflight == PreflightResponse([request EXCEPT !.method = "OPTIONS"], environ)

\* the decision the origin gate of lucid() takes for the request in hand
OwnGate == LucidCorsDecision(request.origin, AllowedOrigins)

\* C22: for every policy and every Origin header, OPTIONS /lucid is allowed
\* exactly when POST /lucid passes the origin gate, and when allowed the two
\* responses carry the same Access-Control-Allow-Origin and the same
\* Access-Control-Allow-Credentials: a POST is compared with the answer to its
\* preflight, a preflight with the decision of the gate.
C22_PreflightAgreesWithPost ==
    (pc = "responded" /\ request.path = "/lucid") =>
        /\ request.method = "POST" =>
              /\ (OwnPreflight.status = 204) <=> ~IsForbidden
              /\ ~IsForbidden =>
                    /\ response.headers[ACAO] = OwnPreflight.headers[ACAO]
                    /\ response.headers[ACAC] = OwnPreflight.headers[ACAC]
        /\ request.method = "OPTIONS" =>
              /\ (response.status = 204) <=> OwnGate.is_request_allowed
              /\ response.status = 204 =>
                    /\ response.headers[ACAO] = OwnGate.origin_to_send
                    /\ (response.headers[ACAC] = Lit("true")) <=>
                            OwnGate.allow_credentials_post

\* C22 happens: under a list without "*", a POST from a listed origin is
\* answered with that origin and credentials, as its preflight is
C22_Witness ==
    /\ pc = "responded" /\ request.method = "POST" /\ request.path = "/lucid"
    /\ ~HasWildcard /\ OriginMatches
    /\ response.status = 200
    /\ response.headers[ACAO] = request.origin
    /\ response.headers[ACAC] = Lit("true")
    /\ OwnPreflight.status = 204

-----------------------------------------------------------------------------
(* The status of a POST /lucid response against its body (under SpecRelay). *)

\* the body of the response is the success body: it has generated_text
IsSuccessBody ==
    response.body.t = "dict" /\ "generated_text" \in DOMAIN response.body.v

\* the body of the response is an error envelope: it has error
IsErrorEnvelope ==
    response.body.t = "dict" /\ "error" \in DOMAIN response.body.v

\* C23: a POST /lucid response has a 2xx status only if its body is the
\* success body with generated_text, and every response whose body is an
\* error envelope has a status of 400 or above, whatever status the upstream
\* API answered with.
C23_ErrorsAre4xxOr5xx ==
    (pc = "responded" /\ PostInHand) =>
        /\ response.status \in 200..299 => IsSuccessBody
        /\ IsErrorEnvelope => response.status >= 400

-----------------------------------------------------------------------------
(* The allow-list get_allowed_origins_config() returns (under Spec). *)

\* ALLOWED_ORIGINS is unset or the empty string
OriginsUnsetOrEmpty == environ.ALLOWED_ORIGINS \in {PyNone, PyStr(<<>>)}

\* ALLOWED_ORIGINS is set, not empty, and made only of commas and whitespace
OnlySeparators ==
    /\ ~OriginsUnsetOrEmpty
    /\ \A i \in 1..Len(environ.ALLOWED_ORIGINS.v) :
            environ.ALLOWED_ORIGINS.v[i] \in {",", " "}

\* every entry of the allow-list is a trimmed, non-empty string without comma
EntriesTrimmed ==
    \A i \in 1..Len(AllowedOrigins) :
        LET o == AllowedOrigins[i]
        IN  /\ o.t = "str" /\ o.v # <<>>
            /\ o.v[1] # " " /\ o.v[Len(o.v)] # " "
            /\ \A k \in 1..Len(o.v) : o.v[k] # ","

\* C24 as claimed: the allow-list is never empty: it is the wildcard policy or
\* a non-empty list of trimmed, non-empty origins, and a value that names no
\* origin (unset, empty, or only commas and whitespace) gives the wildcard.
C24_NeverEmptyAllowList ==
    /\ AllowedOrigins # <<>>
    /\ EntriesTrimmed
    /\ (OriginsUnsetOrEmpty \/ OnlySeparators) => AllowedOrigins = <<Lit("*")>>

\* C24 amended: an unset or empty ALLOWED_ORIGINS gives the wildcard policy;
\* any other value gives the list of its trimmed, non-empty pieces, which is
\* empty exactly when the value is made only of commas and whitespace, and
\* under the empty list every OPTIONS /lucid and POST /lucid is answered 403.
C24_EmptyOnlyFromSeparators ==
    /\ OriginsUnsetOrEmpty => AllowedOrigins = <<Lit("*")>>
    /\ EntriesTrimmed
    /\ (AllowedOrigins = <<>>) <=> OnlySeparators
    /\ (OnlySeparators /\ pc = "responded" /\ ToLucid) => response.status = 403

\* C24 happens: ALLOWED_ORIGINS is a comma and a space, the allow-list is
\* empty and a POST /lucid is denied
C24_Witness ==
    /\ environ.ALLOWED_ORIGINS = PyStr(<<",", " ">>)
    /\ AllowedOrigins = <<>>
    /\ pc = "responded" /\ request.method = "POST" /\ request.path = "/lucid"
    /\ response.status = 403

====
